---- MODULE Spec2Model ----
(***************************************************************************)
(* OasisMarketMakerKeeper: the band reconciliation of                      *)
(* src/market_maker_keeper/oasis_market_maker_keeper.py as a state machine.*)
(*                                                                         *)
(* Amounts, prices and margins are Wad fixed-point numbers, kept as their  *)
(* raw integer value.  The venue (OasisDEX), the token balances, the price *)
(* feed and the reloadable band configuration are the environment.  One    *)
(* call of synchronize_orders is split where the code blocks in            *)
(* synchronize(...): Begin submits the cancellation batch, TopUp runs when *)
(* that batch has resolved and submits the placement batch, Finish returns.*)
(***************************************************************************)
EXTENDS Integers, Sequences, FiniteSets, TLC

VARIABLES
    orders,         \* the venue's open orders (otc.get_orders())
    balance,        \* the keeper account's token balances (token.balance_of)
    eth,            \* the keeper account's ETH balance (eth_balance)
    config,         \* what bands_config.get_config() returns
    price,          \* what price_feed.get_price() returns: <<>> is None, <<p>> a price
    terminated,     \* self.terminate(...) has been called
    pc,             \* where the keeper is: idle, inside a tick, shutting down
    locals,         \* synchronize_orders' locals: our_orders, buy_bands,
                    \* sell_bands, target_price (<<>> is None, <<p>> a price)
    cancel_reqs,    \* the kill transactions of the current / last batch
    place_reqs,     \* the make transactions of the current / last batch
    buy_log,        \* top_up_buy_bands' loop, one entry per band iteration
    sell_log,       \* top_up_sell_bands' loop, one entry per band iteration
    next_id,        \* the id the venue gives the next order
    ticks,          \* synchronize_orders calls started
    quiet,          \* history: prev - the last tick completed with every request
                    \* effective and nothing changed from outside since it began;
                    \* now - the same of the running tick so far
    probe           \* input and result of the stand-alone validator runs

vars == <<orders, balance, eth, config, price, terminated, pc, locals,
          cancel_reqs, place_reqs, buy_log, sell_log, next_id, ticks, quiet, probe>>

----------------------------------------------------------------------------
(* Bounds of the model *)

\* synchronize_orders calls in a behaviour
MaxTicks == 2

----------------------------------------------------------------------------
(* Wad arithmetic (pymaker.numeric.Wad), scaled down: WadUnit is the raw   *)
(* value of 1.0, RoundUnit the raw value of the last place kept by         *)
(* round(..., self.round_places).                                          *)

WadUnit == 100
RoundUnit == 10
min_eth_balance == 1

Wad_mul(a, b) == (a * b) \div WadUnit

Wad_div(a, b) == (a * WadUnit) \div b

Wad_min(a, b) == IF a <= b THEN a ELSE b

\* round(price, round_places): Python rounds halves to the even neighbour
Wad_round(x) ==
    LET q == x \div RoundUnit
        r == x % RoundUnit
    IN  IF 2 * r < RoundUnit THEN q * RoundUnit
        ELSE IF 2 * r > RoundUnit THEN (q + 1) * RoundUnit
        ELSE IF q % 2 = 0 THEN q * RoundUnit
        ELSE (q + 1) * RoundUnit

----------------------------------------------------------------------------
(* Tokens, addresses, orders *)

sai == "SAI"
gem == "GEM"
other_token == "OTHER"
our_address == "us"
their_address == "them"

Order(id, owner, sell_token, sell_amount, buy_token, buy_amount) ==
    [order_id |-> id, owner |-> owner,
     sell_which_token |-> sell_token, sell_how_much |-> sell_amount,
     buy_which_token |-> buy_token, buy_how_much |-> buy_amount]

----------------------------------------------------------------------------
(* keeper.band: BuyBand / SellBand.  A band is the configured dictionary   *)
(* plus its side.                                                          *)

BuyBand(d) ==
    [side |-> "buy",
     min_margin |-> d.minMargin, avg_margin |-> d.avgMargin, max_margin |-> d.maxMargin,
     min_amount |-> d.minSaiAmount, avg_amount |-> d.avgSaiAmount,
     max_amount |-> d.maxSaiAmount, dust_cutoff |-> d.dustCutoff]

SellBand(d) ==
    [side |-> "sell",
     min_margin |-> d.minMargin, avg_margin |-> d.avgMargin, max_margin |-> d.maxMargin,
     min_amount |-> d.minWEthAmount, avg_amount |-> d.avgWEthAmount,
     max_amount |-> d.maxWEthAmount, dust_cutoff |-> d.dustCutoff]

\* price = p * (1 - margin) for buy bands, p * (1 + margin) for sell bands
apply_margin(band, target_price, margin) ==
    IF band.side = "buy"
    THEN Wad_mul(target_price, WadUnit - margin)
    ELSE Wad_mul(target_price, WadUnit + margin)

\* the price of an order, in SAI per GEM on both sides
order_price(band, order) ==
    IF band.side = "buy"
    THEN Wad_div(order.sell_how_much, order.buy_how_much)
    ELSE Wad_div(order.buy_how_much, order.sell_how_much)

\* Band.includes: the order's price lies in the band's price range, ends included
includes(band, order, target_price) ==
    LET p1 == apply_margin(band, target_price, band.min_margin)
        p2 == apply_margin(band, target_price, band.max_margin)
        lo == Wad_min(p1, p2)
        hi == IF p1 <= p2 THEN p2 ELSE p1
        p  == order_price(band, order)
    IN  lo <= p /\ p <= hi

\* Band.avg_price
avg_price(band, target_price) == apply_margin(band, target_price, band.avg_margin)

RECURSIVE SumAmounts(_, _)
SumAmounts(os, i) ==
    IF i > Len(os) THEN 0 ELSE os[i].sell_how_much + SumAmounts(os, i + 1)

\* OasisMarketMakerKeeper.total_amount
total_amount(os) == SumAmounts(os, 1)

\* Band.excessive_orders: every order of the band when their total is above
\* max_amount, none otherwise
excessive_orders(band, os, target_price) ==
    LET in_band == SelectSeq(os, LAMBDA o: includes(band, o, target_price))
    IN  IF total_amount(in_band) > band.max_amount THEN in_band ELSE <<>>

----------------------------------------------------------------------------
(* The band configuration and its validation *)

\* an overlap test that also flags bands that only touch at a margin
two_bands_overlap_touching(band1, band2) ==
    band1.min_margin <= band2.max_margin /\ band2.min_margin <= band1.max_margin

two_bands_overlap(band1, band2) ==
    band1.min_margin < band2.max_margin /\ band2.min_margin < band1.max_margin

bands_overlap(bands) ==
    \E i \in 1..Len(bands) :
        Cardinality({j \in 1..Len(bands) : two_bands_overlap(bands[i], bands[j])}) > 1

MapSeq(Op(_), s) == [i \in 1..Len(s) |-> Op(s[i])]

\* a band_configuration that rejects an overlap without calling self.terminate
band_configuration_not_terminating(cfg) ==
    LET buy_bands  == MapSeq(BuyBand, cfg.buyBands)
        sell_bands == MapSeq(SellBand, cfg.sellBands)
    IN  IF bands_overlap(buy_bands) \/ bands_overlap(sell_bands)
        THEN [buy_bands |-> <<>>, sell_bands |-> <<>>, terminate |-> FALSE]
        ELSE [buy_bands |-> buy_bands, sell_bands |-> sell_bands, terminate |-> FALSE]

\* band_configuration: the two band lists, and whether self.terminate was called
band_configuration(cfg) ==
    LET buy_bands  == MapSeq(BuyBand, cfg.buyBands)
        sell_bands == MapSeq(SellBand, cfg.sellBands)
    IN  IF bands_overlap(buy_bands) \/ bands_overlap(sell_bands)
        THEN [buy_bands |-> <<>>, sell_bands |-> <<>>, terminate |-> TRUE]
        ELSE [buy_bands |-> buy_bands, sell_bands |-> sell_bands, terminate |-> FALSE]

----------------------------------------------------------------------------
(* The keeper's orders *)

RECURSIVE SortById(_)
SortById(S) ==
    IF S = {} THEN <<>>
    ELSE LET o == CHOOSE x \in S : \A y \in S : x.order_id <= y.order_id
         IN  <<o>> \o SortById(S \ {o})

\* otc.get_orders(): the open orders, oldest first
get_orders(book) == SortById(book)

get_our_orders(book) == SelectSeq(get_orders(book), LAMBDA o: o.owner = our_address)

our_sell_orders(os) ==
    SelectSeq(os, LAMBDA o: o.buy_which_token = sai /\ o.sell_which_token = gem)

our_buy_orders(os) ==
    SelectSeq(os, LAMBDA o: o.buy_which_token = gem /\ o.sell_which_token = sai)

\* an outside test that asks every band to include the order
outside_any_band_orders_strict(os, bands, target_price) ==
    SelectSeq(os, LAMBDA o: \E i \in 1..Len(bands) : ~includes(bands[i], o, target_price))

outside_any_band_orders(os, bands, target_price) ==
    SelectSeq(os, LAMBDA o: ~ \E i \in 1..Len(bands) : includes(bands[i], o, target_price))

\* an outside_orders that looks at the buy side only
outside_orders_buy_side(os, buy_bands, sell_bands, target_price) ==
    outside_any_band_orders(our_buy_orders(os), buy_bands, target_price)

outside_orders(os, buy_bands, sell_bands, target_price) ==
    outside_any_band_orders(our_buy_orders(os), buy_bands, target_price)
        \o outside_any_band_orders(our_sell_orders(os), sell_bands, target_price)

RECURSIVE ExcessiveFrom(_, _, _, _)
ExcessiveFrom(bands, side_orders, target_price, i) ==
    IF i > Len(bands) THEN <<>>
    ELSE excessive_orders(bands[i], side_orders, target_price)
            \o ExcessiveFrom(bands, side_orders, target_price, i + 1)

\* an excessive_sell_orders that looks through the buy orders
excessive_sell_orders_of_buy_side(os, sell_bands, target_price) ==
    ExcessiveFrom(sell_bands, our_buy_orders(os), target_price, 1)

excessive_sell_orders(os, sell_bands, target_price) ==
    ExcessiveFrom(sell_bands, our_sell_orders(os), target_price, 1)

\* an excessive_buy_orders that spares the oldest of the orders it found
excessive_buy_orders_but_oldest(os, buy_bands, target_price) ==
    LET found == ExcessiveFrom(buy_bands, our_buy_orders(os), target_price, 1)
    IN  IF found = <<>> THEN <<>> ELSE Tail(found)

excessive_buy_orders(os, buy_bands, target_price) ==
    ExcessiveFrom(buy_bands, our_buy_orders(os), target_price, 1)

\* the orders synchronize_orders hands to cancel_orders when a price is known
orders_to_cancel(os, buy_bands, sell_bands, target_price) ==
    excessive_buy_orders(os, buy_bands, target_price)
        \o excessive_sell_orders(os, sell_bands, target_price)
        \o outside_orders(os, buy_bands, sell_bands, target_price)

----------------------------------------------------------------------------
(* Phase 3: the top-up passes.  Each pass is the source's loop over the    *)
(* bands; its result is the loop's trace, one entry per band: the band,    *)
(* total_amount, our_balance at the start of the iteration, what was       *)
(* taken from our_balance, and the otc.make(...) yielded (at most one).    *)

make(have_token, have_amount, want_token, want_amount) ==
    [have_token |-> have_token, have_amount |-> have_amount,
     want_token |-> want_token, want_amount |-> want_amount, status |-> "pending"]

sell_band_iteration(band, sell_orders, target_price, our_balance) ==
    LET in_band      == SelectSeq(sell_orders, LAMBDA o: includes(band, o, target_price))
        total        == total_amount(in_band)
        have_amount  == Wad_min(band.avg_amount - total, our_balance)
        want_amount  == Wad_mul(have_amount, Wad_round(avg_price(band, target_price)))
        reserve      == total < band.min_amount
                          /\ have_amount >= band.dust_cutoff /\ have_amount > 0
    IN  [band |-> band, total_amount |-> total, our_balance |-> our_balance,
         reserved |-> IF reserve THEN have_amount ELSE 0,
         requests |-> IF reserve /\ want_amount > 0
                      THEN <<make(gem, have_amount, sai, want_amount)>>
                      ELSE <<>>]

\* a buy band iteration without the dust_cutoff test
buy_band_iteration_no_dust(band, buy_orders, target_price, our_balance) ==
    LET in_band      == SelectSeq(buy_orders, LAMBDA o: includes(band, o, target_price))
        total        == total_amount(in_band)
        have_amount  == Wad_min(band.avg_amount - total, our_balance)
        want_amount  == Wad_div(have_amount, Wad_round(avg_price(band, target_price)))
        reserve      == total < band.min_amount /\ have_amount > 0
    IN  [band |-> band, total_amount |-> total, our_balance |-> our_balance,
         reserved |-> IF reserve THEN have_amount ELSE 0,
         requests |-> IF reserve /\ want_amount > 0
                      THEN <<make(sai, have_amount, gem, want_amount)>>
                      ELSE <<>>]

\* a buy band iteration that offers avg_amount whatever the band already holds
buy_band_iteration_whole_avg(band, buy_orders, target_price, our_balance) ==
    LET in_band      == SelectSeq(buy_orders, LAMBDA o: includes(band, o, target_price))
        total        == total_amount(in_band)
        have_amount  == Wad_min(band.avg_amount, our_balance)
        want_amount  == Wad_div(have_amount, Wad_round(avg_price(band, target_price)))
        reserve      == total < band.min_amount
                          /\ have_amount >= band.dust_cutoff /\ have_amount > 0
    IN  [band |-> band, total_amount |-> total, our_balance |-> our_balance,
         reserved |-> IF reserve THEN have_amount ELSE 0,
         requests |-> IF reserve /\ want_amount > 0
                      THEN <<make(sai, have_amount, gem, want_amount)>>
                      ELSE <<>>]

\* a buy band iteration that takes from our_balance only what it offers
buy_band_iteration_reserving_on_yield(band, buy_orders, target_price, our_balance) ==
    LET in_band      == SelectSeq(buy_orders, LAMBDA o: includes(band, o, target_price))
        total        == total_amount(in_band)
        have_amount  == Wad_min(band.avg_amount - total, our_balance)
        want_amount  == Wad_div(have_amount, Wad_round(avg_price(band, target_price)))
        reserve      == total < band.min_amount
                          /\ have_amount >= band.dust_cutoff /\ have_amount > 0
    IN  [band |-> band, total_amount |-> total, our_balance |-> our_balance,
         reserved |-> IF reserve /\ want_amount > 0 THEN have_amount ELSE 0,
         requests |-> IF reserve /\ want_amount > 0
                      THEN <<make(sai, have_amount, gem, want_amount)>>
                      ELSE <<>>]

buy_band_iteration(band, buy_orders, target_price, our_balance) ==
    LET in_band      == SelectSeq(buy_orders, LAMBDA o: includes(band, o, target_price))
        total        == total_amount(in_band)
        have_amount  == Wad_min(band.avg_amount - total, our_balance)
        want_amount  == Wad_div(have_amount, Wad_round(avg_price(band, target_price)))
        reserve      == total < band.min_amount
                          /\ have_amount >= band.dust_cutoff /\ have_amount > 0
    IN  [band |-> band, total_amount |-> total, our_balance |-> our_balance,
         reserved |-> IF reserve THEN have_amount ELSE 0,
         requests |-> IF reserve /\ want_amount > 0
                      THEN <<make(sai, have_amount, gem, want_amount)>>
                      ELSE <<>>]

RECURSIVE SellLoop(_, _, _, _, _)
SellLoop(bands, sell_orders, target_price, our_balance, i) ==
    IF i > Len(bands) THEN <<>>
    ELSE LET e == sell_band_iteration(bands[i], sell_orders, target_price, our_balance)
         IN  <<e>> \o SellLoop(bands, sell_orders, target_price, our_balance - e.reserved, i + 1)

RECURSIVE BuyLoop(_, _, _, _, _)
BuyLoop(bands, buy_orders, target_price, our_balance, i) ==
    IF i > Len(bands) THEN <<>>
    ELSE LET e == buy_band_iteration(bands[i], buy_orders, target_price, our_balance)
         IN  <<e>> \o BuyLoop(bands, buy_orders, target_price, our_balance - e.reserved, i + 1)

\* top_up_sell_bands; gem_balance is self.gem.balance_of(self.our_address)
top_up_sell_bands(os, sell_bands, target_price, gem_balance) ==
    SellLoop(sell_bands, our_sell_orders(os), target_price, gem_balance, 1)

\* a top_up_buy_bands that gives every band the whole balance
top_up_buy_bands_whole_balance(os, buy_bands, target_price, sai_balance) ==
    [i \in 1..Len(buy_bands) |->
        buy_band_iteration(buy_bands[i], our_buy_orders(os), target_price, sai_balance)]

\* top_up_buy_bands; sai_balance is self.sai.balance_of(self.our_address)
top_up_buy_bands(os, buy_bands, target_price, sai_balance) ==
    BuyLoop(buy_bands, our_buy_orders(os), target_price, sai_balance, 1)

RECURSIVE Yielded(_, _)
Yielded(log, i) ==
    IF i > Len(log) THEN <<>> ELSE log[i].requests \o Yielded(log, i + 1)

\* top_up_bands: the make transactions of both passes, buy bands first
top_up_bands(buys, sells) == Yielded(buys, 1) \o Yielded(sells, 1)

\* a top-up given the order list taken before the cancellations
requery_stale(snapshot, book) == snapshot

\* line 192: the order list top_up_bands is given
requery(snapshot, book) == get_our_orders(book)

\* cancel_orders: one kill transaction per order handed in
cancel_orders(os) == [i \in 1..Len(os) |-> [order_id |-> os[i].order_id, status |-> "pending"]]

\* a cancel_all_orders that leaves the orders of other pairs alone
cancel_all_orders_of_pair(book) ==
    cancel_orders(our_buy_orders(get_our_orders(book)) \o our_sell_orders(get_our_orders(book)))

\* cancel_all_orders
cancel_all_orders(book) == cancel_orders(get_our_orders(book))

----------------------------------------------------------------------------
(* The environment the model draws from: band configurations, reference    *)
(* prices, an initial order book and initial balances.                     *)

BuyDict(lo, avg, hi, min_amt, avg_amt, max_amt, dust) ==
    [minMargin |-> lo, avgMargin |-> avg, maxMargin |-> hi,
     minSaiAmount |-> min_amt, avgSaiAmount |-> avg_amt, maxSaiAmount |-> max_amt,
     dustCutoff |-> dust]

SellDict(lo, avg, hi, min_amt, avg_amt, max_amt, dust) ==
    [minMargin |-> lo, avgMargin |-> avg, maxMargin |-> hi,
     minWEthAmount |-> min_amt, avgWEthAmount |-> avg_amt, maxWEthAmount |-> max_amt,
     dustCutoff |-> dust]

BandA == BuyDict(0, 5, 10, 300, 600, 700, 100)
BandB == BuyDict(10, 15, 20, 300, 600, 700, 100)
BandS == SellDict(0, 5, 10, 100, 150, 180, 50)
\* adjacent to BandA like BandB, with smaller amounts
BandFar == BuyDict(10, 15, 20, 100, 150, 170, 50)

Configs ==
    { \* two adjacent buy bands sharing the margin 0.10, one sell band
      [buyBands |-> <<BandA, BandB>>, sellBands |-> <<BandS>>],
      \* two adjacent buy bands, the farther one first
      [buyBands |-> <<BandFar, BandA>>, sellBands |-> <<>>],
      \* overlapping buy bands
      [buyBands |-> <<BandA, BuyDict(5, 10, 15, 300, 600, 700, 100)>>,
       sellBands |-> <<BandS>>],
      \* a buy band whose amounts are too small to buy anything, then a buy
      \* band narrower than the rounding of the price
      [buyBands |-> <<BuyDict(0, 5, 8, 1, 1, 700, 0), BuyDict(11, 12, 13, 300, 600, 700, 100)>>,
       sellBands |-> <<>>] }

Prices == {<<>>, <<200>>}

OrderPool ==
    { Order(1, our_address, sai, 540, gem, 284),          \* buys at 1.90
      Order(2, our_address, sai, 180, gem, 100),          \* buys at 1.80, the
                                                          \* price both BandA and BandB end at
      Order(3, our_address, gem, 200, sai, 420),          \* sells at 2.10
      Order(4, our_address, sai, 100, other_token, 100),  \* another pair
      Order(5, their_address, sai, 380, gem, 200) }       \* somebody else's

FirstNewId == Cardinality(OrderPool) + 1

SaiBalances == {0, 50, 700}
GemBalances == {250}

NoProbe == [cfg |-> [buyBands |-> <<>>, sellBands |-> <<>>], result |-> <<>>]

\* Bounds of the validator runs: bands in a list, and the largest margin
MaxBands == 3
MaxMargin == 2

MarginDicts ==
    {BuyDict(lo, lo, hi, 300, 600, 700, 100) : lo \in 0..MaxMargin, hi \in 0..MaxMargin}

\* the band lists of one side: every list of up to MaxBands bands whose
\* margins are in 0..MaxMargin with min_margin <= max_margin
ProbeLists ==
    UNION {[1..n -> {d \in MarginDicts : d.minMargin <= d.maxMargin}] : n \in 0..MaxBands}

\* the other side: no band, two adjacent bands, two overlapping bands
FewLists ==
    { <<>>,
      <<SellDict(0, 0, 1, 100, 150, 180, 50), SellDict(1, 1, 2, 100, 150, 180, 50)>>,
      <<SellDict(0, 0, 2, 100, 150, 180, 50), SellDict(1, 1, 2, 100, 150, 180, 50)>> }

AsSell(d) == SellDict(d.minMargin, d.avgMargin, d.maxMargin, 100, 150, 180, 50)

AsBuy(d) == BuyDict(d.minMargin, d.avgMargin, d.maxMargin, 300, 600, 700, 100)

\* first_orders keeps what line 184 read, which line 192 overwrites
NoLocals == [our_orders |-> <<>>, first_orders |-> <<>>, buy_bands |-> <<>>,
             sell_bands |-> <<>>, target_price |-> <<>>]

Init ==
    /\ orders \in {S \in SUBSET OrderPool : \E o \in S : o.owner = their_address}
    /\ balance \in [{sai, gem} -> SaiBalances \cup GemBalances]
    /\ balance[sai] \in SaiBalances /\ balance[gem] \in GemBalances
    /\ eth \in {0, min_eth_balance}
    /\ config \in Configs
    /\ price \in Prices
    /\ terminated = FALSE
    /\ pc = "idle"
    /\ locals = NoLocals
    /\ cancel_reqs = <<>>
    /\ place_reqs = <<>>
    /\ buy_log = <<>>
    /\ sell_log = <<>>
    /\ next_id = FirstNewId
    /\ ticks = 0
    /\ quiet = [prev |-> FALSE, now |-> FALSE]
    /\ probe = NoProbe

----------------------------------------------------------------------------
(* The keeper *)

\* a synchronize that returns only when every transaction went through
Resolved_all_confirmed(reqs) == \A i \in 1..Len(reqs) : reqs[i].status = "confirmed"

\* synchronize([...]) returns: every transaction of the batch has ended
Resolved(reqs) == \A i \in 1..Len(reqs) : reqs[i].status # "pending"

Disturbed == [prev |-> FALSE, now |-> FALSE]

\* a synchronize_orders that a new block starts while the last call waits
\* for its batch
Begin_reentrant ==
    /\ pc \in {"idle", "cancelling", "placing"} /\ ~terminated /\ ticks < MaxTicks
    /\ ticks' = ticks + 1
    /\ IF eth < min_eth_balance
       THEN /\ terminated' = TRUE
            /\ locals' = NoLocals
            /\ cancel_reqs' = cancel_all_orders(orders)
            /\ pc' = "cancel_all"
       ELSE LET bc == band_configuration(config)
                os == get_our_orders(orders)
            IN  /\ terminated' = bc.terminate
                /\ locals' = [our_orders |-> os, first_orders |-> os,
                              buy_bands |-> bc.buy_bands,
                              sell_bands |-> bc.sell_bands, target_price |-> price]
                /\ IF price # <<>>
                   THEN /\ cancel_reqs' = cancel_orders(
                               orders_to_cancel(os, bc.buy_bands, bc.sell_bands, price[1]))
                        /\ pc' = "cancelling"
                   ELSE /\ cancel_reqs' = cancel_all_orders(orders)
                        /\ pc' = "cancel_all"
    /\ place_reqs' = <<>> /\ buy_log' = <<>> /\ sell_log' = <<>>
    /\ quiet' = [quiet EXCEPT !.now = TRUE]
    /\ UNCHANGED <<orders, balance, eth, config, price, next_id, probe>>

\* a synchronize_orders without the ETH balance check of lines 178-181
Begin_no_eth_check ==
    /\ pc = "idle" /\ ~terminated /\ ticks < MaxTicks
    /\ ticks' = ticks + 1
    /\ LET bc == band_configuration(config)
           os == get_our_orders(orders)
       IN  /\ terminated' = bc.terminate
           /\ locals' = [our_orders |-> os, first_orders |-> os,
                         buy_bands |-> bc.buy_bands,
                         sell_bands |-> bc.sell_bands, target_price |-> price]
           /\ IF price # <<>>
              THEN /\ cancel_reqs' = cancel_orders(
                          orders_to_cancel(os, bc.buy_bands, bc.sell_bands, price[1]))
                   /\ pc' = "cancelling"
              ELSE /\ cancel_reqs' = cancel_all_orders(orders)
                   /\ pc' = "cancel_all"
    /\ place_reqs' = <<>> /\ buy_log' = <<>> /\ sell_log' = <<>>
    /\ quiet' = [quiet EXCEPT !.now = TRUE]
    /\ UNCHANGED <<orders, balance, eth, config, price, next_id, probe>>

\* synchronize_orders up to its first synchronize(...): the ETH check, the
\* configuration, the order list, the price, and the cancellation batch
Begin ==
    /\ pc = "idle" /\ ~terminated /\ ticks < MaxTicks
    /\ ticks' = ticks + 1
    /\ IF eth < min_eth_balance
       THEN /\ terminated' = TRUE
            /\ locals' = NoLocals
            /\ cancel_reqs' = cancel_all_orders(orders)
            /\ pc' = "cancel_all"
       ELSE LET bc == band_configuration(config)
                os == get_our_orders(orders)
            IN  /\ terminated' = bc.terminate
                /\ locals' = [our_orders |-> os, first_orders |-> os,
                              buy_bands |-> bc.buy_bands,
                              sell_bands |-> bc.sell_bands, target_price |-> price]
                /\ IF price # <<>>
                   THEN /\ cancel_reqs' = cancel_orders(
                               orders_to_cancel(os, bc.buy_bands, bc.sell_bands, price[1]))
                        /\ pc' = "cancelling"
                   ELSE /\ cancel_reqs' = cancel_all_orders(orders)
                        /\ pc' = "cancel_all"
    /\ place_reqs' = <<>> /\ buy_log' = <<>> /\ sell_log' = <<>>
    /\ quiet' = [quiet EXCEPT !.now = TRUE]
    /\ UNCHANGED <<orders, balance, eth, config, price, next_id, probe>>

\* the venue resolves one kill transaction: the order is removed and what
\* it sold comes back to its owner, or the transaction fails
KillResolve(i, ok) ==
    /\ pc \in {"cancelling", "cancel_all", "shutdown"}
    /\ cancel_reqs[i].status = "pending"
    \* one account sends them: they are mined in the order of their nonces
    /\ \A j \in 1..(i - 1) : cancel_reqs[j].status # "pending"
    /\ LET hit == {o \in orders : o.order_id = cancel_reqs[i].order_id}
       IN  IF ok /\ hit # {}
           THEN LET o == CHOOSE x \in hit : TRUE
                IN  /\ orders' = orders \ hit
                    /\ balance' = IF o.sell_which_token \in DOMAIN balance
                                  THEN [balance EXCEPT ![o.sell_which_token] = @ + o.sell_how_much]
                                  ELSE balance
                    /\ cancel_reqs' = [cancel_reqs EXCEPT ![i].status = "confirmed"]
                    /\ quiet' = quiet
           ELSE /\ cancel_reqs' = [cancel_reqs EXCEPT ![i].status = "failed"]
                /\ quiet' = IF hit # {} THEN Disturbed ELSE quiet
                /\ UNCHANGED <<orders, balance>>
    /\ UNCHANGED <<eth, config, price, terminated, pc, locals, place_reqs,
                   buy_log, sell_log, next_id, ticks, probe>>

\* a top-up whose sell pass starts from what the buy pass left of one counter
TopUp_shared_pool ==
    /\ pc = "cancelling" /\ Resolved(cancel_reqs)
    /\ LET os    == requery(locals.our_orders, orders)
           buys  == top_up_buy_bands(os, locals.buy_bands, locals.target_price[1], balance[sai])
           spent == IF buys = <<>> THEN 0
                    ELSE balance[sai] - (buys[Len(buys)].our_balance - buys[Len(buys)].reserved)
           sells == top_up_sell_bands(os, locals.sell_bands, locals.target_price[1],
                                      balance[gem] - spent)
       IN  /\ locals' = [locals EXCEPT !.our_orders = os]
           /\ buy_log' = buys
           /\ sell_log' = sells
           /\ place_reqs' = top_up_bands(buys, sells)
    /\ pc' = "placing"
    /\ UNCHANGED <<orders, balance, eth, config, price, terminated, cancel_reqs,
                   next_id, ticks, quiet, probe>>

\* synchronize_orders from the return of cancel_orders to the second
\* synchronize(...): the order list is read again and both top-up passes run
TopUp ==
    /\ pc = "cancelling" /\ Resolved(cancel_reqs)
    /\ LET os    == requery(locals.our_orders, orders)
           buys  == top_up_buy_bands(os, locals.buy_bands, locals.target_price[1], balance[sai])
           sells == top_up_sell_bands(os, locals.sell_bands, locals.target_price[1], balance[gem])
       IN  /\ locals' = [locals EXCEPT !.our_orders = os]
           /\ buy_log' = buys
           /\ sell_log' = sells
           /\ place_reqs' = top_up_bands(buys, sells)
    /\ pc' = "placing"
    /\ UNCHANGED <<orders, balance, eth, config, price, terminated, cancel_reqs,
                   next_id, ticks, quiet, probe>>

\* the venue resolves one make transaction: the order is opened and what it
\* sells leaves the keeper's balance, or the transaction fails
MakeResolve(i, ok) ==
    /\ pc = "placing"
    /\ place_reqs[i].status = "pending"
    \* one account sends them: they are mined in the order of their nonces
    /\ \A j \in 1..(i - 1) : place_reqs[j].status # "pending"
    /\ LET r == place_reqs[i]
       IN  IF ok /\ balance[r.have_token] >= r.have_amount
           THEN /\ orders' = orders \cup {Order(next_id, our_address, r.have_token,
                                                r.have_amount, r.want_token, r.want_amount)}
                /\ balance' = [balance EXCEPT ![r.have_token] = @ - r.have_amount]
                /\ next_id' = next_id + 1
                /\ place_reqs' = [place_reqs EXCEPT ![i].status = "confirmed"]
                /\ quiet' = quiet
           ELSE /\ place_reqs' = [place_reqs EXCEPT ![i].status = "failed"]
                /\ quiet' = Disturbed
                /\ UNCHANGED <<orders, balance, next_id>>
    /\ UNCHANGED <<eth, config, price, terminated, pc, locals, cancel_reqs,
                   buy_log, sell_log, ticks, probe>>

\* synchronize_orders returns
Finish ==
    /\ \/ pc = "placing" /\ Resolved(place_reqs)
       \/ pc = "cancel_all" /\ Resolved(cancel_reqs)
    /\ pc' = "idle"
    /\ locals' = NoLocals
    /\ cancel_reqs' = <<>> /\ place_reqs' = <<>> /\ buy_log' = <<>> /\ sell_log' = <<>>
    /\ quiet' = [prev |-> quiet.now, now |-> FALSE]
    /\ UNCHANGED <<orders, balance, eth, config, price, terminated, next_id, ticks, probe>>

\* shutdown, which follows terminate: cancel_all_orders
Shutdown ==
    /\ pc = "idle" /\ terminated
    /\ cancel_reqs' = cancel_all_orders(orders)
    /\ pc' = "shutdown"
    /\ UNCHANGED <<orders, balance, eth, config, price, terminated, locals, place_reqs,
                   buy_log, sell_log, next_id, ticks, quiet, probe>>

Stop ==
    /\ pc = "shutdown" /\ Resolved(cancel_reqs)
    /\ pc' = "stopped"
    /\ cancel_reqs' = <<>>
    /\ UNCHANGED <<orders, balance, eth, config, price, terminated, locals, place_reqs,
                   buy_log, sell_log, next_id, ticks, quiet, probe>>

----------------------------------------------------------------------------
(* The environment *)

\* a taker takes one of the keeper's orders whole: between two ticks, or
\* while a tick waits for its cancellations.  (A take while the placements
\* resolve is seen by the keeper like one made right after the tick.)
Fill(o) ==
    /\ \/ pc = "idle" /\ ~terminated /\ ticks < MaxTicks
       \/ pc = "cancelling"
    /\ o.owner = our_address
    \* the takers' interest is bounded to the orders open at the start
    /\ o \in OrderPool
    /\ orders' = orders \ {o}
    /\ balance' = IF o.buy_which_token \in DOMAIN balance
                  THEN [balance EXCEPT ![o.buy_which_token] = @ + o.buy_how_much]
                  ELSE balance
    /\ quiet' = Disturbed
    /\ UNCHANGED <<eth, config, price, terminated, pc, locals, cancel_reqs, place_reqs,
                   buy_log, sell_log, next_id, ticks, probe>>

\* the price feed loses or regains its price.  A tick reads the price once,
\* as it begins: a change during a tick is seen like one made right after it.
\* The configuration file and the ETH balance are drawn by Init.
PriceChange(p) ==
    /\ pc = "idle" /\ ~terminated /\ ticks < MaxTicks
    /\ p # price
    /\ price' = p
    /\ quiet' = Disturbed
    /\ UNCHANGED <<orders, balance, eth, config, terminated, pc, locals, cancel_reqs,
                   place_reqs, buy_log, sell_log, next_id, ticks, probe>>

Next ==
    \/ Begin
    \/ \E i \in 1..Len(cancel_reqs), ok \in BOOLEAN : KillResolve(i, ok)
    \/ TopUp
    \/ \E i \in 1..Len(place_reqs), ok \in BOOLEAN : MakeResolve(i, ok)
    \/ Finish
    \/ Shutdown
    \/ Stop
    \/ \E o \in orders : Fill(o)
    \/ \E p \in Prices : PriceChange(p)

Spec == Init /\ [][Next]_vars

----------------------------------------------------------------------------
(* The keeper alone, with a venue that ends every transaction handed to    *)
(* it: synchronize(...) waits for each transaction of the batch, and each  *)
(* is mined or gives up.                                                   *)

NextKeeper ==
    \/ Begin
    \/ \E i \in 1..Len(cancel_reqs), ok \in BOOLEAN : KillResolve(i, ok)
    \/ TopUp
    \/ \E i \in 1..Len(place_reqs), ok \in BOOLEAN : MakeResolve(i, ok)
    \/ Finish
    \/ Shutdown
    \/ Stop

\* the keeper before its last tick: the whole pool of orders open or none
\* of the keeper's, SAI to spend or none
InitKeeper ==
    /\ orders \in {OrderPool, {o \in OrderPool : o.owner = their_address}}
    /\ balance \in [{sai, gem} -> SaiBalances \cup GemBalances]
    /\ balance[sai] \in SaiBalances \ {50} /\ balance[gem] \in GemBalances
    /\ eth \in {0, min_eth_balance}
    /\ config \in Configs
    /\ price \in Prices
    /\ terminated = FALSE
    /\ pc = "idle"
    /\ locals = NoLocals
    /\ cancel_reqs = <<>>
    /\ place_reqs = <<>>
    /\ buy_log = <<>>
    /\ sell_log = <<>>
    /\ next_id = FirstNewId
    /\ ticks = MaxTicks - 1
    /\ quiet = Disturbed
    /\ probe = NoProbe

SpecKeeper == InitKeeper /\ [][NextKeeper]_vars /\ WF_vars(NextKeeper)

----------------------------------------------------------------------------
(* The validator alone: band_configuration and bands_overlap applied to    *)
(* every configuration of ProbeLists on one side and FewLists on the other.*)

InitValidator ==
    /\ orders = {}
    /\ balance = [t \in {sai, gem} |-> 0]
    /\ eth = min_eth_balance
    /\ config \in Configs /\ config.sellBands = <<>>
    /\ price = <<>>
    /\ terminated = FALSE
    /\ pc = "idle"
    /\ locals = NoLocals
    /\ cancel_reqs = <<>>
    /\ place_reqs = <<>>
    /\ buy_log = <<>>
    /\ sell_log = <<>>
    /\ next_id = FirstNewId
    /\ ticks = 0
    /\ quiet = Disturbed
    /\ \E a \in ProbeLists, b \in FewLists :
          \/ probe = [cfg |-> [buyBands |-> a, sellBands |-> b], result |-> <<>>]
          \/ probe = [cfg |-> [buyBands |-> MapSeq(AsBuy, b), sellBands |-> MapSeq(AsSell, a)],
                      result |-> <<>>]

\* one call of band_configuration, and of bands_overlap on each side
Validate ==
    /\ probe.result = <<>>
    /\ probe' = [probe EXCEPT !.result =
                    <<[buy_overlap   |-> bands_overlap(MapSeq(BuyBand, probe.cfg.buyBands)),
                       sell_overlap  |-> bands_overlap(MapSeq(SellBand, probe.cfg.sellBands)),
                       configuration |-> band_configuration(probe.cfg)]>>]
    /\ UNCHANGED <<orders, balance, eth, config, price, terminated, pc, locals,
                   cancel_reqs, place_reqs, buy_log, sell_log, next_id, ticks, quiet>>

NextValidator == Validate

SpecValidator == InitValidator /\ [][NextValidator]_vars

----------------------------------------------------------------------------
(* Helpers of the claims *)

InTick == pc \in {"cancelling", "cancel_all", "placing"}

CancelIds == {cancel_reqs[i].order_id : i \in 1..Len(cancel_reqs)}

OwnOpen == {o \in orders : o.owner = our_address}

IsBuyOrder(o) == o.sell_which_token = sai /\ o.buy_which_token = gem

IsSellOrder(o) == o.sell_which_token = gem /\ o.buy_which_token = sai

\* two bands of the configured lists overlap on one side
ConfigOverlaps ==
    \/ \E i, j \in 1..Len(config.buyBands) :
          i # j /\ two_bands_overlap(BuyBand(config.buyBands[i]), BuyBand(config.buyBands[j]))
    \/ \E i, j \in 1..Len(config.sellBands) :
          i # j /\ two_bands_overlap(SellBand(config.sellBands[i]), SellBand(config.sellBands[j]))

AllPending(reqs) == \A i \in 1..Len(reqs) : reqs[i].status = "pending"

RECURSIVE SumHave(_, _, _)
SumHave(reqs, token, i) ==
    IF i > Len(reqs) THEN 0
    ELSE (IF reqs[i].have_token = token THEN reqs[i].have_amount ELSE 0)
            + SumHave(reqs, token, i + 1)

----------------------------------------------------------------------------
(* C1: when two same-side bands of the configuration overlap, a tick       *)
(* issues a cancel request for every open order the keeper owns and no     *)
(* place request, whatever the price.  Stated on the tick's cancellation   *)
(* batch before any of it has resolved, and on the whole tick for the      *)
(* place requests.                                                         *)
C1_OverlapCancelsEveryOwnOrder ==
    (InTick /\ ConfigOverlaps) =>
        /\ place_reqs = <<>>
        /\ (pc # "placing" /\ AllPending(cancel_reqs)) =>
              \A o \in OwnOpen : o.order_id \in CancelIds

(* C2: when the price feed has no price, the tick issues a cancel request  *)
(* for every open order the keeper owns and no place request: the tick     *)
(* never reaches the cancellation of phases 1 and 2 nor the top-up.        *)
C2_NoPriceCancelsAll ==
    /\ (pc \in {"cancelling", "placing"}) => price # <<>>
    /\ (pc = "cancel_all" /\ price = <<>>) =>
          /\ place_reqs = <<>>
          /\ \A o \in OwnOpen : o.order_id \in CancelIds

C2_Witness ==
    /\ pc = "cancel_all" /\ price = <<>> /\ eth >= min_eth_balance
    /\ AllPending(cancel_reqs) /\ Len(cancel_reqs) >= 2
    /\ \E o \in OwnOpen : ~IsBuyOrder(o) /\ ~IsSellOrder(o)

(* C3: idempotence.  When a tick has run with every request effective, and *)
(* nothing has changed from outside since it began, the next tick issues   *)
(* no cancel request and no place request.                                 *)
C3_SecondTickIssuesNothing ==
    (InTick /\ quiet.prev /\ quiet.now) => (cancel_reqs = <<>> /\ place_reqs = <<>>)

Logs == buy_log \o sell_log

\* what the source computes as have_amount in a band's iteration
HaveAmount(e) == Wad_min(e.band.avg_amount - e.total_amount, e.our_balance)

(* C4: balance conservation.  The have_amounts of the place requests of    *)
(* one side never add up to more than the balance of that side's token     *)
(* when the pass began (the balance is unchanged while every place request *)
(* is still pending).                                                      *)
C4_BalanceConservation ==
    (pc = "placing" /\ AllPending(place_reqs)) =>
        /\ SumHave(place_reqs, sai, 1) <= balance[sai]
        /\ SumHave(place_reqs, gem, 1) <= balance[gem]

C4_Witness ==
    /\ pc = "placing" /\ AllPending(place_reqs)
    /\ Cardinality({i \in 1..Len(place_reqs) : place_reqs[i].have_token = sai}) >= 2
    /\ SumHave(place_reqs, sai, 1) = balance[sai]
    /\ \E i \in 1..Len(place_reqs) : place_reqs[i].have_token = gem

(* C5: dust suppression.  In each band of a top-up pass, when              *)
(* min(avg_amount - total, running balance) is below the band's            *)
(* dust_cutoff, or is not above zero, the band gets no place request.      *)
C5_DustSuppression ==
    \A i \in 1..Len(Logs) :
        (HaveAmount(Logs[i]) < Logs[i].band.dust_cutoff \/ HaveAmount(Logs[i]) <= 0)
            => Logs[i].requests = <<>>

C5_Witness ==
    /\ pc = "placing"
    /\ \E i \in 1..Len(Logs) :
          /\ Logs[i].total_amount < Logs[i].band.min_amount
          /\ HaveAmount(Logs[i]) > 0
          /\ HaveAmount(Logs[i]) < Logs[i].band.dust_cutoff
          /\ Logs[i].requests = <<>>

\* the total of the keeper's open orders of the band's side that the band includes
BookTotal(band, p) ==
    total_amount(SelectSeq(SortById(OwnOpen),
        LAMBDA o: /\ IF band.side = "buy" THEN IsBuyOrder(o) ELSE IsSellOrder(o)
                  /\ includes(band, o, p)))

(* C6: phase ordering.  No place request exists before every cancel        *)
(* request of the tick is confirmed or failed, and the top-up computes its *)
(* band totals from the orders open after that, not from the list taken    *)
(* before the cancellations (the book is unchanged while every place       *)
(* request is still pending).                                              *)
C6_TopUpAfterCancellations ==
    /\ (pc = "placing" \/ place_reqs # <<>>) => Resolved(cancel_reqs)
    /\ (pc = "placing" /\ AllPending(place_reqs)) =>
          /\ locals.our_orders = SortById(OwnOpen)
          /\ \A i \in 1..Len(Logs) :
                Logs[i].total_amount = BookTotal(Logs[i].band, price[1])

C6_Witness ==
    /\ pc = "placing" /\ AllPending(place_reqs) /\ place_reqs # <<>>
    /\ \E i \in 1..Len(cancel_reqs) : cancel_reqs[i].status = "confirmed"
    /\ \E i \in 1..Len(cancel_reqs) : cancel_reqs[i].status = "failed"

NoBandIncludes(bands, o, p) == ~ \E i \in 1..Len(bands) : includes(bands[i], o, p)

(* C7: phase 2.  With a price, every buy order of the keeper that no buy   *)
(* band includes and every sell order of the keeper that no sell band      *)
(* includes is in the tick's cancellation batch; only the bands of the     *)
(* order's own side count.                                                 *)
C7_OutsideOrdersCancelled ==
    (pc = "cancelling" /\ AllPending(cancel_reqs)) =>
        \A o \in OwnOpen :
            (\/ IsBuyOrder(o) /\ NoBandIncludes(locals.buy_bands, o, price[1])
             \/ IsSellOrder(o) /\ NoBandIncludes(locals.sell_bands, o, price[1]))
                => o.order_id \in CancelIds

C7_Witness ==
    /\ pc = "cancelling" /\ AllPending(cancel_reqs)
    /\ locals.buy_bands # <<>>
    /\ \E o \in OwnOpen : IsBuyOrder(o) /\ NoBandIncludes(locals.buy_bands, o, price[1])
    /\ \E o \in OwnOpen : IsBuyOrder(o) /\ ~NoBandIncludes(locals.buy_bands, o, price[1])
    /\ \E o \in OwnOpen : IsSellOrder(o) /\ NoBandIncludes(locals.sell_bands, o, price[1])

\* the orders of the list taken as the tick began that are of the band's
\* side and that the band includes
InBand(band, p) ==
    SelectSeq(locals.our_orders,
        LAMBDA o: /\ IF band.side = "buy" THEN IsBuyOrder(o) ELSE IsSellOrder(o)
                  /\ includes(band, o, p))

AllCancelled(os) == \A k \in 1..Len(os) : os[k].order_id \in CancelIds

(* C8: phase 1.  For every band whose orders (same side, included at the   *)
(* current price) add up to more than max_amount, all of those orders are  *)
(* in the tick's cancellation batch.                                       *)
C8_ExcessiveBandCancelledWhole ==
    pc = "cancelling" =>
        \A i \in 1..Len(locals.buy_bands \o locals.sell_bands) :
            LET band == (locals.buy_bands \o locals.sell_bands)[i]
            IN  total_amount(InBand(band, price[1])) > band.max_amount
                    => AllCancelled(InBand(band, price[1]))

C8_Witness ==
    /\ pc = "cancelling"
    /\ \E i \in 1..Len(locals.buy_bands) :
          /\ Len(InBand(locals.buy_bands[i], price[1])) >= 2
          /\ total_amount(InBand(locals.buy_bands[i], price[1])) > locals.buy_bands[i].max_amount
    /\ \E i \in 1..Len(locals.buy_bands) :
          /\ Len(InBand(locals.buy_bands[i], price[1])) >= 1
          /\ total_amount(InBand(locals.buy_bands[i], price[1])) <= locals.buy_bands[i].max_amount
    /\ \E i \in 1..Len(locals.sell_bands) :
          total_amount(InBand(locals.sell_bands[i], price[1])) > locals.sell_bands[i].max_amount

PairwiseOverlap(bands) ==
    \E i, j \in 1..Len(bands) :
        /\ i # j
        /\ bands[i].min_margin < bands[j].max_margin
        /\ bands[j].min_margin < bands[i].max_margin

(* C10: overlap validation.  For band lists with min_margin <= max_margin, *)
(* bands_overlap is true exactly when two bands at different places of the *)
(* list overlap; band_configuration returns two empty lists when either    *)
(* side's list overlaps, and both lists as configured otherwise.           *)
C10_OverlapValidation ==
    probe.result # <<>> =>
        LET r  == probe.result[1]
            bb == MapSeq(BuyBand, probe.cfg.buyBands)
            sb == MapSeq(SellBand, probe.cfg.sellBands)
            invalid == PairwiseOverlap(bb) \/ PairwiseOverlap(sb)
        IN  /\ r.buy_overlap = PairwiseOverlap(bb)
            /\ r.sell_overlap = PairwiseOverlap(sb)
            /\ r.configuration.buy_bands = (IF invalid THEN <<>> ELSE bb)
            /\ r.configuration.sell_bands = (IF invalid THEN <<>> ELSE sb)

C10_Witness ==
    /\ probe.result # <<>>
    /\ Len(probe.cfg.buyBands) = MaxBands
    /\ ~PairwiseOverlap(MapSeq(BuyBand, probe.cfg.buyBands))
    /\ \E i \in 1..Len(probe.cfg.buyBands) :
          probe.cfg.buyBands[i].minMargin = probe.cfg.buyBands[i].maxMargin
    /\ PairwiseOverlap(MapSeq(SellBand, probe.cfg.sellBands))
    /\ probe.result[1].configuration.buy_bands = <<>>

----------------------------------------------------------------------------
SideBands(o) ==
    IF IsBuyOrder(o) THEN locals.buy_bands
    ELSE IF IsSellOrder(o) THEN locals.sell_bands ELSE <<>>

\* the order is in a band of its side, and no band that includes it holds
\* more than max_amount
SafelyInBand(o, p) ==
    /\ ~NoBandIncludes(SideBands(o), o, p)
    /\ \A i \in 1..Len(SideBands(o)) :
          includes(SideBands(o)[i], o, p)
              => total_amount(InBand(SideBands(o)[i], p)) <= SideBands(o)[i].max_amount

(* C12: orders inside a band are kept.  In a tick with a price, a valid    *)
(* configuration and enough ETH, an own order that a band of its side      *)
(* includes, all the bands including it holding at most max_amount, is not *)
(* in the tick's cancellation batch.                                       *)
C12_InBandOrdersKept ==
    (pc = "cancelling" /\ ~ConfigOverlaps) =>
        \A k \in 1..Len(locals.first_orders) :
            SafelyInBand(locals.first_orders[k], price[1])
                => locals.first_orders[k].order_id \notin CancelIds

C12_Witness ==
    /\ pc = "cancelling" /\ ~ConfigOverlaps /\ cancel_reqs # <<>>
    /\ \E k \in 1..Len(locals.first_orders) :
          LET o == locals.first_orders[k]
          IN  /\ SafelyInBand(o, price[1])
              /\ Cardinality({i \in 1..Len(SideBands(o)) :
                                  includes(SideBands(o)[i], o, price[1])}) = 2
              /\ o.order_id \notin CancelIds

SomeFailed(reqs) == \E i \in 1..Len(reqs) : reqs[i].status = "failed"

\* a request failed and a later one of the same batch went through
FailedThenConfirmed(reqs) ==
    \E i, j \in 1..Len(reqs) :
        i < j /\ reqs[i].status = "failed" /\ reqs[j].status = "confirmed"

SomePending(reqs) == \E i \in 1..Len(reqs) : reqs[i].status = "pending"

C15_ClassificationIsPartition ==
    InTick =>
        \A o \in OwnOpen :
            Len(our_buy_orders(<<o>>)) + Len(our_sell_orders(<<o>>)) = 1

\* the orders of the band's side that the band included when the tick began
InBandFirst(band, p) ==
    SelectSeq(locals.first_orders,
        LAMBDA o: /\ IF band.side = "buy" THEN IsBuyOrder(o) ELSE IsSellOrder(o)
                  /\ includes(band, o, p))

\* every order of the cancellation batch is gone from the book
CancelsEffective == \A o \in orders : o.order_id \notin CancelIds

\* the balance the band's top-up pass read after the cancellations
\* (lines 237, 252)
StartBalance(band) ==
    IF band.side = "buy" THEN buy_log[1].our_balance ELSE sell_log[1].our_balance

\* want_amount as lines 245 and 260 compute it
WantAmount(band, have_amount, p) ==
    IF band.side = "buy"
    THEN Wad_div(have_amount, Wad_round(avg_price(band, p)))
    ELSE Wad_mul(have_amount, Wad_round(avg_price(band, p)))

\* the band's request is for avg_amount, and once it went through an order
\* of that size is open
RepairedToAvg(e) ==
    /\ AllCancelled(InBandFirst(e.band, price[1]))
    /\ e.total_amount = 0
    /\ Len(e.requests) = 1
    /\ e.requests[1].have_amount = e.band.avg_amount
    /\ (\A i \in 1..Len(place_reqs) : place_reqs[i].status = "confirmed")
          => \E o \in OwnOpen : /\ o.order_id >= next_id - Len(place_reqs)
                                /\ o.sell_how_much = e.band.avg_amount

C17_IndependentPools ==
    (pc = "placing" /\ AllPending(place_reqs)) =>
        /\ buy_log = top_up_buy_bands(SelectSeq(SortById(OwnOpen), IsBuyOrder),
                                      locals.buy_bands, price[1], balance[sai])
        /\ sell_log = top_up_sell_bands(SelectSeq(SortById(OwnOpen), IsSellOrder),
                                        locals.sell_bands, price[1], balance[gem])
        /\ buy_log # <<>> => buy_log[1].our_balance = balance[sai]
        /\ sell_log # <<>> => sell_log[1].our_balance = balance[gem]
        /\ \A i \in 1..Len(buy_log) : \A k \in 1..Len(buy_log[i].requests) :
              buy_log[i].requests[k].have_token = sai
        /\ \A i \in 1..Len(sell_log) : \A k \in 1..Len(sell_log[i].requests) :
              sell_log[i].requests[k].have_token = gem

C17_Witness ==
    /\ pc = "placing" /\ AllPending(place_reqs)
    /\ SumHave(place_reqs, sai, 1) > balance[gem]
    /\ SumHave(place_reqs, gem, 1) > 0
    /\ \E o \in OwnOpen : IsBuyOrder(o)

\* the band's iteration got past the dust check
PassedDust(e) ==
    /\ e.total_amount < e.band.min_amount
    /\ HaveAmount(e) >= e.band.dust_cutoff
    /\ HaveAmount(e) > 0

\* the have_amounts of the first k bands of the pass that passed the dust check
RECURSIVE SumPassed(_, _)
SumPassed(log, k) ==
    IF k = 0 THEN 0
    ELSE (IF PassedDust(log[k]) THEN HaveAmount(log[k]) ELSE 0) + SumPassed(log, k - 1)

RunningBalance(log, bands, start) ==
    /\ Len(log) = Len(bands)
    /\ \A k \in 1..Len(log) :
          /\ log[k].band = bands[k]
          /\ log[k].our_balance = start - SumPassed(log, k - 1)
          /\ log[k].our_balance >= 0
          /\ start - SumPassed(log, k) >= 0
          /\ k > 1 => log[k].our_balance <= log[k - 1].our_balance

(* C18: the running balance of a top-up pass.  The bands are gone through  *)
(* once each, in the configured order; the k-th band sees the pass's       *)
(* starting balance less the have_amount of every earlier band that passed *)
(* the dust check, whether or not that band's want_amount let it place an  *)
(* order; the running balance never grows and never goes below zero.       *)
C18_RunningBalance ==
    (pc = "placing" /\ AllPending(place_reqs)) =>
        /\ RunningBalance(buy_log, locals.buy_bands, balance[sai])
        /\ RunningBalance(sell_log, locals.sell_bands, balance[gem])

C18_Witness ==
    /\ pc = "placing" /\ AllPending(place_reqs)
    /\ \E k \in 2..Len(buy_log) :
          /\ PassedDust(buy_log[k - 1])
          /\ buy_log[k - 1].requests = <<>>
          /\ buy_log[k].our_balance = buy_log[k - 1].our_balance - HaveAmount(buy_log[k - 1])
          /\ buy_log[k].our_balance < balance[sai]
          /\ buy_log[k].requests # <<>>

(* C19: the low-ETH fail-safe.  A tick that begins with the ETH balance    *)
(* below min_eth_balance requests termination, issues a cancel request for *)
(* every open order the keeper owns and no place request, whatever the     *)
(* configuration and the price.                                            *)
C19_LowEthFailSafe ==
    (InTick /\ eth < min_eth_balance) =>
        /\ terminated
        /\ pc = "cancel_all"
        /\ place_reqs = <<>> /\ Logs = <<>>
        /\ AllPending(cancel_reqs) => \A o \in OwnOpen : o.order_id \in CancelIds

C19_Witness ==
    /\ pc = "cancel_all" /\ eth < min_eth_balance /\ terminated
    /\ price # <<>> /\ ~ConfigOverlaps
    /\ AllPending(cancel_reqs)
    /\ Cardinality(OwnOpen) = 4 /\ Len(cancel_reqs) = 4

(* C20: no duplicate cancels within a tick.  With a valid configuration,   *)
(* the cancellation batch built from excessive_buy_orders,                 *)
(* excessive_sell_orders and outside_orders holds each order id at most    *)
(* once.                                                                   *)
C20_NoDuplicateCancels ==
    (pc = "cancelling" /\ ~ConfigOverlaps) =>
        \A i, j \in 1..Len(cancel_reqs) :
            i # j => cancel_reqs[i].order_id # cancel_reqs[j].order_id

====
